---------------------------- MODULE Spec2Model ----------------------------
(***************************************************************************)
(* Model of tiktok_unfollower.py: the classification-and-remediation       *)
(* pipeline of TikTokUnfollower (ledger load/save, cooldown gate,          *)
(* check_if_account_invalid, unfollow_invalid_accounts, unfollow_batch).   *)
(*                                                                         *)
(* One process runs at a time; every invocation of the script is a fresh   *)
(* process that loads the ledger from state.json.  The browser is the      *)
(* environment: the list shown in the Following modal and what a profile   *)
(* page shows are chosen nondeterministically.                             *)
(***************************************************************************)
EXTENDS Integers, Sequences, FiniteSets, TLC

(* ------------------------------ bounds --------------------------------- *)

\* Longest Following list the modal shows.
MaxList == 2

\* Largest BATCH_SIZE a run is configured with.
MaxBatch == 2

\* Number of invocations of the script that are explored.
MaxRuns == 2

(* ------------------------- program constants --------------------------- *)

\* UNFOLLOW_DELAY: cooldown between runs, in seconds (the default).
UNFOLLOW_DELAY == 10800


\* last_run: None
NoTime == -1

\* reason: None
None == "None"

(* ------------------------------ handles -------------------------------- *)

\* Usernames are strings, modelled as sequences of characters.
UserDigits == <<"u", "s", "e", "r", "4", "8", "2", "1", "3">>
UserCustom == <<"U", "s", "e", "r", "x">>
Plain      == <<"@", "a", "l", "i">>
Junk       == <<"@">>

\* What a list item of the modal can show as its username text.
Items == {UserDigits, UserCustom, Plain, Junk}

Digits == {"0", "1", "2", "3", "4", "5", "6", "7", "8", "9"}

\* str.lower() on one character of the alphabet used here.
LowerChar(c) ==
  CASE c = "U" -> "u"
    [] c = "S" -> "s"
    [] c = "E" -> "e"
    [] c = "R" -> "r"
    [] OTHER -> c

\* str.lower()
Lower(s) == [k \in 1..Len(s) |-> LowerChar(s[k])]

\* str.startswith(p)
StartsWith(s, p) == Len(s) >= Len(p) /\ SubSeq(s, 1, Len(p)) = p

\* str.lstrip('@')
RECURSIVE LStripAt(_)
LStripAt(s) == IF s # <<>> /\ Head(s) = "@" THEN LStripAt(Tail(s)) ELSE s

Min(a, b) == IF a <= b THEN a ELSE b

\* x in list
InList(x, list) == \E k \in 1..Len(list) : list[k] = x

\* All sequences over S of length at most n.
SeqsUpTo(S, n) == UNION {[1..m -> S] : m \in 0..n}

(* ------------------------------ ledger --------------------------------- *)

\* The default ledger load_state returns when there is nothing to load.
EmptyLedger ==
  [last_run |-> NoTime, processed_accounts |-> <<>>, unfollowed_accounts |-> <<>>]

\* The keys of the ledger.
LedgerKeys == {"last_run", "processed_accounts", "unfollowed_accounts"}

\* What a file can hold: a JSON object ("dict") with some of the keys of
\* the ledger, JSON that is not an object ("notdict"), text that is not
\* JSON ("malformed"), or nothing that open() can read ("unreadable").
Forms == {"dict", "notdict", "malformed", "unreadable"}

\* state.json, or state.json.backup, does not exist.
NoFile == [exists |-> FALSE, form |-> "dict", keys |-> {}, ledger |-> EmptyLedger]

\* Lines 138-140: the file exists and open() raises an OSError, which
\* neither except clause of load_state catches.
load_raises(f) == f.exists /\ f.form = "unreadable"

\* Lines 141-149 and 150: the file is there and json.load or the
\* isinstance test raised.
corrupted(f) == f.exists /\ f.form \in {"notdict", "malformed"}

\* load_state: the ledger in state.json with the missing keys set to their
\* defaults, or the default ledger.
load_state(f) ==
  IF f.exists /\ f.form = "dict"
  THEN [last_run |->
          IF "last_run" \in f.keys THEN f.ledger.last_run ELSE NoTime,
        processed_accounts |->
          IF "processed_accounts" \in f.keys
          THEN f.ledger.processed_accounts ELSE <<>>,
        unfollowed_accounts |->
          IF "unfollowed_accounts" \in f.keys
          THEN f.ledger.unfollowed_accounts ELSE <<>>]
  ELSE EmptyLedger

\* Lines 152-158: state.json and state.json.backup after load_state; a
\* corrupted state.json is renamed over whatever state.json.backup held,
\* and a rename that raises is passed over (ok = FALSE).
rename_backup(f, b, ok) ==
  IF corrupted(f) /\ ok THEN <<NoFile, f>> ELSE <<f, b>>

\* save_state: the file after the write; an IOError/OSError is logged and
\* leaves the file as it was (ok = FALSE).
save_state(f, st, ok) ==
  IF ok THEN [exists |-> TRUE, form |-> "dict", keys |-> LedgerKeys, ledger |-> st]
  ELSE f

\* Lines 169-170 cut short: open(STATE_FILE, 'w') emptied the file and
\* json.dump had written only a part of st when the process ended.
torn_write(f, st) ==
  [exists |-> TRUE, form |-> "malformed", keys |-> {}, ledger |-> st]

\* should_run: the wrongly ordered comparison, a plausible slip.
should_run_strict(st, t) ==
  IF st.last_run = NoTime THEN TRUE
  ELSE ~(t <= st.last_run + UNFOLLOW_DELAY)

\* should_run: enough time has passed since last_run.
should_run(st, t) ==
  IF st.last_run = NoTime THEN TRUE
  ELSE ~(t < st.last_run + UNFOLLOW_DELAY)

(* ---------------------------- classifier ------------------------------- *)

\* The 'user' prefix of line 783.
USER_PREFIX == <<"u", "s", "e", "r">>

\* Outcome of one actuator probe that may find nothing, find it, or raise.
Probe == {"absent", "present", "raise"}

\* Outcome of counting the elements of one video selector.
Count == {"zero", "some", "raise"}

\* Marker strings that page_text can contain: "couldn't find this account"
\* or "account not found" (notfound; both contain "account"), "banned",
\* "account", and "no content" / "hasn't posted" (nocontent).
Texts ==
  { {}, {"account"}, {"banned"}, {"banned", "account"},
    {"notfound", "account"}, {"notfound", "account", "banned"},
    {"nocontent"}, {"nocontent", "banned"} }

\* What the browser shows for one profile visit.  After a page load or a
\* body read that raised nothing else of the page exists; the videos shown
\* under a standing Refresh button or under a marker text stay free.
NoVideos == <<"zero", "zero", "zero">>

\* page.inner_text('body') raised.
TextRaise == {"raise"}

Observations ==
  { o \in [goto : {"ok", "raise"}, refresh1 : Probe, text : Texts \cup {TextRaise},
            refresh2 : Probe, videos : [1..3 -> Count]] :
      /\ o.goto = "raise" =>
            o.refresh1 = "absent" /\ o.text = {} /\ o.refresh2 = "absent"
      /\ o.text = TextRaise => o.refresh2 = "absent"
      /\ o.goto = "raise" \/ o.text = TextRaise => o.videos = NoVideos
      /\ \A k \in 1..2 : o.videos[k] = "some" =>
            \A j \in (k+1)..3 : o.videos[j] = "zero" }

\* The profiles met by the runs of the pipeline: a page load that times
\* out, a profile with videos, an account that is not found, a profile on
\* which every video selector raises, and a page that shows the Refresh
\* button before and after the retry.
Profiles ==
  { o \in Observations :
      \/ /\ o.refresh1 = "absent" /\ o.refresh2 = "absent"
         /\ \/ o.goto = "raise"
            \/ o.text = {} /\ o.videos = <<"some", "zero", "zero">>
            \/ o.text = {"notfound", "account"} /\ o.videos = NoVideos
            \/ o.text = {} /\ o.videos = <<"raise", "raise", "raise">>
      \/ /\ o.refresh1 = "present" /\ o.refresh2 = "present"
         /\ o.text = {} /\ o.videos = NoVideos }

Verdict(inv, why, calls, err) ==
  [is_invalid |-> inv, reason |-> why, trace |-> calls, raised |-> err]

\* Lines 827-863: the three selectors are tried in order until one counts
\* at least one element; a selector that raises is passed over.
FirstSome(v) ==
  IF \E k \in 1..3 : v[k] = "some"
  THEN CHOOSE k \in 1..3 : v[k] = "some" /\ \A j \in 1..(k-1) : v[j] # "some"
  ELSE 0

\* The second Refresh probe answered as if the button were never there.
refresh_gone(o) == FALSE

\* Lines 809-815: the Refresh button is still on the page after the retry.
still_refresh(o) == o.refresh2 = "present"

\* The marker tests with the banned test made first.
banned_first(text) ==
  IF "banned" \in text /\ "account" \in text THEN "Banned account"
  ELSE IF "notfound" \in text THEN "Account not found"
  ELSE None

\* Lines 817-825: the reason the marker text of the page gives, if any.
marker_reason(text) ==
  IF "notfound" \in text THEN "Account not found"
  ELSE IF "banned" \in text /\ "account" \in text THEN "Banned account"
  ELSE None

\* The check ended at one of the returns of lines 813, 865 and 868: Valid
\* because a call raised, or because the Refresh button stood, before the
\* videos were looked for.
fail_open(r) ==
  /\ ~r.is_invalid
  /\ r.trace # <<>>
  /\ r.trace[Len(r.trace)] # "locator"

\* Refresh clicks among the actuator calls of one check.
Retries(calls) == Cardinality({k \in 1..Len(calls) : calls[k] = "click"})

\* check_if_account_invalid with the prefix test made after the page load:
\* a plausible reordering.
check_late_prefix(username, o) ==
  IF o.goto = "raise" THEN Verdict(FALSE, None, <<"goto">>, TRUE)
  ELSE IF StartsWith(Lower(username), USER_PREFIX)
       THEN Verdict(TRUE, "Default username format (userXXXX)", <<"goto">>, FALSE)
       ELSE Verdict(FALSE, None, <<"goto">>, FALSE)

\* check_if_account_invalid(username) on a profile that shows o:
\* (is_invalid, reason), the actuator calls made, and whether any of
\* them raised.
check_if_account_invalid(username, o) ==
  IF StartsWith(Lower(username), USER_PREFIX)
  THEN Verdict(TRUE, "Default username format (userXXXX)", <<>>, FALSE)
  ELSE IF o.goto = "raise"
  THEN Verdict(FALSE, None, <<"goto">>, TRUE)
  ELSE
    LET t1 == <<"goto", "get_by_text">> \o
                (IF o.refresh1 = "present" THEN <<"click">> ELSE <<>>)
        e1 == o.refresh1 = "raise"
    IN
    IF o.text = TextRaise
    THEN Verdict(FALSE, None, t1 \o <<"inner_text">>, TRUE)
    ELSE
      LET t2 == t1 \o <<"inner_text", "get_by_text">>
          e2 == e1 \/ o.refresh2 = "raise"
      IN
      IF still_refresh(o) THEN Verdict(FALSE, None, t2, e2)
      ELSE IF marker_reason(o.text) # None
           THEN Verdict(TRUE, marker_reason(o.text), t2, e2)
      ELSE
        LET first == FirstSome(o.videos)
            tried == IF first = 0 THEN 3 ELSE first
            t3 == t2 \o [k \in 1..tried |-> "locator"]
            e3 == e2 \/ \E k \in 1..tried : o.videos[k] = "raise"
        IN
        IF first = 0
        THEN IF "nocontent" \in o.text
             THEN Verdict(TRUE, "No videos (likely deleted/banned)", t3, e3)
             ELSE Verdict(TRUE, "No videos found", t3, e3)
        ELSE Verdict(FALSE, None, t3, e3)

(* ------------------------------- state --------------------------------- *)

VARIABLES
  file,              \* state.json on disk
  backup,            \* state.json.backup on disk
  csv,               \* invalid_accounts.csv on disk
  now,               \* the wall clock, in seconds
  runs,              \* invocations of the script so far
  pc,                \* where the running process is
  DRY_RUN,           \* the DRY_RUN setting of the running process
  BATCH_SIZE,        \* the BATCH_SIZE setting of the running process
  disk,              \* whether the working directory can be written in this run
  probe,             \* the arguments of a call made on its own
  state,             \* self.state
  followList,        \* the <li> items of the Following modal, by username text
  usernames,         \* unfollow_invalid_accounts: usernames
  invalid_accounts,  \* unfollow_invalid_accounts: invalid_accounts
  pos,               \* accounts handled so far by the loop the process is in
  lastCheck,         \* the latest check_if_account_invalid call of this run
  attempted,         \* usernames the unfollow_batch loop has taken up, in order
  clicks,            \* unfollow_button.click() calls of this run
  located,           \* every account the batch took up had its item and button found
  responsive,        \* every account the batch took up met a modal that answered
                     \* the query and showed a Following button
  faithful,          \* every run so far loaded the ledger the run before it left
                     \* and found each username once in the list
  waits,             \* the time.sleep(randomized_delay) calls of the checking loop
  history            \* per username, over all runs: checks made, ever found
                     \* Invalid, ever taken up by the loop of unfollow_batch,
                     \* ever found Valid by a check that ended fail-open,
                     \* ever found Invalid in a dry run

vars ==
  <<file, backup, csv, now, runs, pc, DRY_RUN, BATCH_SIZE, disk, probe, state, followList, usernames,
    invalid_accounts, pos, lastCheck, attempted, clicks, located, responsive, faithful,
    waits, history>>

\* Seconds that can pass between two invocations.
Ticks == {UNFOLLOW_DELAY - 1, UNFOLLOW_DELAY}

\* Usernames that can reach the classifier.
Names == Items \ {Junk}

NoCheck ==
  [username |-> <<>>, is_invalid |-> FALSE, reason |-> None,
   raised |-> FALSE, touched |-> FALSE,
   retries |-> 0, open |-> FALSE]

\* Nothing has happened to a username yet.
NoHistory ==
  [checks |-> 0, invalid |-> FALSE, taken |-> FALSE, open |-> FALSE, dry |-> FALSE]

NoProbe == [username |-> <<>>, seen |-> {}]

\* invalid_accounts.csv does not exist.
NoCsv == [exists |-> FALSE, rows |-> <<>>]

\* The header row ['Timestamp', 'Username', 'Detection Reason'].
CSV_HEADER == [header |-> TRUE, timestamp |-> NoTime, username |-> <<>>, reason |-> None]

\* export_to_csv that writes the header at every call.
export_header_always(c, accounts, t, ok) ==
  IF ~ok THEN c
  ELSE [exists |-> TRUE,
        rows |-> c.rows \o <<CSV_HEADER>> \o
                 [k \in 1..Len(accounts) |->
                    [header |-> FALSE, timestamp |-> t,
                     username |-> accounts[k].username,
                     reason |-> accounts[k].reason]]]

\* export_to_csv: the sink after the call; any exception is logged and
\* leaves the sink as it was (ok = FALSE).
export_to_csv(c, accounts, t, ok) ==
  IF ~ok THEN c
  ELSE [exists |-> TRUE,
        rows |-> (IF c.exists THEN c.rows ELSE <<CSV_HEADER>>) \o
                 [k \in 1..Len(accounts) |->
                    [header |-> FALSE, timestamp |-> t,
                     username |-> accounts[k].username,
                     reason |-> accounts[k].reason]]]

\* Line 912 with the test left out.
seen_never(st, username) == FALSE

\* Line 912: username in self.state['processed_accounts'].
seen_before(st, username) == InList(username, st.processed_accounts)

\* Lines 889-922: the usernames still to check, with their list index.
extract_usernames(list, st) ==
  LET entries == [k \in 1..Len(list) |->
                    [username |-> list[k], username_clean |-> LStripAt(list[k]),
                     index |-> k - 1]]
      Keep(e) == /\ e.username # <<>>
                 /\ e.username # Junk
                 /\ ~seen_before(st, e.username)
  IN SelectSeq(entries, Keep)

\* Line 951 left out.
mark_nothing(st, username) == st

\* Line 951: self.state['processed_accounts'].append(username).
mark_processed(st, username) ==
  [st EXCEPT !.processed_accounts = Append(@, username)]

\* Line 984 without the limit.
batch_size_all(limit, accounts) == Len(accounts)

\* Line 984: batch_size = min(BATCH_SIZE, len(accounts)).
batch_size(limit, accounts) == Min(limit, Len(accounts))

\* Line 999 with the test left out.
processed_never(st, username) == FALSE

\* Line 999: username in self.state['processed_accounts'].
already_processed(st, username) == InList(username, st.processed_accounts)

\* Lines 1042-1048: the ledger after an account was handled by the batch.
track_unfollow(st, username, dry, t) ==
  [st EXCEPT !.processed_accounts = Append(@, username),
             !.unfollowed_accounts =
                IF dry THEN @ ELSE Append(@, [username |-> username, timestamp |-> t])]

\* Line 1065: self.state['last_run'] = datetime.now().isoformat().
update_last_run(st, t) == [st EXCEPT !.last_run = t]

\* The loops with a failure ending them: the rest of the accounts is left.
stop_at_failure(i, total, failed) == IF failed THEN total ELSE i + 1

\* Lines 928 and 961-963, 993 and 1051-1060: a failure while handling one
\* account is logged and the loop goes on with the next of the total.
next_account(i, total, failed) == i + 1

\* The PROFILE_CHECK_DELAY setting of the runs of the pipeline, in seconds.
PipelineDelay == 2

\* The setting used when PROFILE_CHECK_DELAY is unset, not an integer or
\* negative (lines 95-101).
DEFAULT_CHECK_DELAY == 30

\* Lines 95-101: PROFILE_CHECK_DELAY as configured by the environment.
profile_check_delay(env) ==
  IF env.valid /\ env.value >= 0 THEN env.value ELSE DEFAULT_CHECK_DELAY

\* Line 957: int(PROFILE_CHECK_DELAY * 0.25), which cuts off towards zero.
jitter(base) == IF base >= 0 THEN base \div 4 ELSE -((-base) \div 4)

\* Line 957: the values of PROFILE_CHECK_DELAY + random.randint(-j, j).
randomized_delay(base) == { base + r : r \in (-jitter(base))..jitter(base) }

\* Line 956 with the test left out: a delay after every account.
delay_every(i, total) == TRUE

\* Line 956: i < len(usernames) - 1.
delay_due(i, total) == i < total - 1

\* A run that is turned away and stamps last_run all the same.
skipped_run_stamped(st, t) == update_last_run(st, t)

\* Lines 1104-1105: run() returns when should_run() is false; the ledger in
\* memory stays as it was loaded.
skipped_run(st, t) == st

\* No username occurs twice among the entries.
NoRepeat(entries) ==
  \A j, k \in 1..Len(entries) : entries[j].username = entries[k].username => j = k

\* The modal after navigate_to_following reopened it: the same items, the
\* items shifted up by one (an account left the list), or only the first
\* item loaded (the reopened modal is not scrolled again).
Reflows(list) ==
  {list, IF list = <<>> THEN list ELSE Tail(list), SubSeq(list, 1, Min(1, Len(list)))}

Init ==
  /\ file = NoFile
  /\ backup = NoFile
  /\ csv = NoCsv
  /\ now = 0
  /\ runs = 0
  /\ pc = "idle"
  /\ DRY_RUN = TRUE
  /\ BATCH_SIZE = 1
  /\ disk = TRUE
  /\ probe = NoProbe
  /\ state = EmptyLedger
  /\ followList = <<>>
  /\ usernames = <<>>
  /\ invalid_accounts = <<>>
  /\ pos = 0
  /\ lastCheck = NoCheck
  /\ attempted = <<>>
  /\ clicks = <<>>
  /\ located = TRUE
  /\ responsive = TRUE
  /\ faithful = TRUE
  /\ waits = <<>>
  /\ history = [u \in Names |-> NoHistory]

(* ------------------------------ actions -------------------------------- *)

\* main() and run() up to the cooldown gate: a new process loads the
\* ledger and asks should_run.
Run(dt, dry, limit, writable) ==
  /\ pc \in {"idle", "gated", "done", "interrupted"}
  /\ runs < MaxRuns
  /\ now' = now + dt
  /\ runs' = runs + 1
  /\ DRY_RUN' = dry
  /\ BATCH_SIZE' = limit
  /\ disk' = writable
  /\ state' = IF should_run(load_state(file), now') THEN load_state(file)
               ELSE skipped_run(load_state(file), now')
  /\ file' = rename_backup(file, backup, writable)[1]
  /\ backup' = rename_backup(file, backup, writable)[2]
  /\ pc' = IF should_run(load_state(file), now') THEN "scan" ELSE "gated"
  /\ followList' = <<>>
  /\ usernames' = <<>>
  /\ invalid_accounts' = <<>>
  /\ pos' = 0
  /\ lastCheck' = NoCheck
  /\ attempted' = <<>>
  /\ clicks' = <<>>
  /\ located' = TRUE
  /\ responsive' = TRUE
  /\ faithful' = (faithful /\ load_state(file) = state)
  /\ waits' = <<>>
  /\ UNCHANGED <<csv, history, probe>>

\* run() from setup_browser to the username extraction of
\* unfollow_invalid_accounts (lines 875-924).
Enumerate(list) ==
  /\ pc = "scan"
  /\ followList' = list
  /\ IF Len(list) = 0
     THEN /\ pc' = "done"
          /\ usernames' = usernames
     ELSE /\ pc' = "classify"
          /\ usernames' = extract_usernames(list, state)
  /\ faithful' = (faithful /\ NoRepeat(usernames'))
  /\ UNCHANGED <<file, backup, csv, now, runs, DRY_RUN, BATCH_SIZE, disk, probe,
                 state, invalid_accounts, pos, lastCheck, attempted, clicks, located,
                 responsive, waits, history>>

\* One iteration of the checking loop (lines 929-963).
Classify(o) ==
  /\ pc = "classify"
  /\ pos < Len(usernames)
  /\ LET account_info == usernames[pos + 1]
         r == check_if_account_invalid(account_info.username_clean, o)
     IN /\ invalid_accounts' =
             IF r.is_invalid
             THEN Append(invalid_accounts,
                         [username |-> account_info.username,
                          index |-> account_info.index, reason |-> r.reason])
             ELSE invalid_accounts
        /\ state' = mark_processed(state, account_info.username)
        /\ file' = save_state(file, state', disk)
        /\ lastCheck' = [username |-> account_info.username_clean,
                         is_invalid |-> r.is_invalid, reason |-> r.reason,
                         raised |-> r.raised, touched |-> r.trace # <<>>,
                         retries |-> Retries(r.trace), open |-> fail_open(r)]
        /\ history' = [history EXCEPT ![account_info.username] =
                         [@ EXCEPT !.checks = @ + 1,
                                   !.invalid = @ \/ r.is_invalid,
                                   !.open = @ \/ fail_open(r),
                                   !.dry = @ \/ (r.is_invalid /\ DRY_RUN)]]
        /\ pos' = next_account(pos, Len(usernames), r.raised \/ ~disk)
        /\ IF delay_due(pos, Len(usernames))
           THEN \E d \in randomized_delay(PipelineDelay) : waits' = Append(waits, d)
           ELSE waits' = waits
  /\ UNCHANGED <<backup, csv, now, runs, pc, DRY_RUN, BATCH_SIZE, disk, probe,
                 followList, usernames, attempted, clicks, located, responsive,
                 faithful>>

\* Lines 965-980 up to the call of unfollow_batch: the export, and the
\* return to the Following modal.
FinishScan(list) ==
  /\ pc = "classify"
  /\ pos = Len(usernames)
  /\ IF invalid_accounts = <<>>
     THEN /\ pc' = "done"
          /\ UNCHANGED <<csv, followList, pos>>
     ELSE /\ csv' = export_to_csv(csv, invalid_accounts, now, disk)
          /\ list \in Reflows(followList)
          /\ followList' = list
          /\ pos' = 0
          /\ pc' = "batch"
  /\ UNCHANGED <<file, backup, now, runs, DRY_RUN, BATCH_SIZE, disk, probe, state,
                 usernames, invalid_accounts, lastCheck, attempted, clicks, located,
                 responsive, faithful, waits, history>>

\* One iteration of the loop of unfollow_batch (lines 993-1060).
BatchItem(query, button) ==
  /\ pc = "batch"
  /\ pos < batch_size(BATCH_SIZE, invalid_accounts)
  /\ LET account == invalid_accounts[pos + 1]
         username == account.username
         reached == /\ ~already_processed(state, username)
                    /\ query = "ok"
                    /\ account.index < Len(followList)
                    /\ button = "found"
         failed == ~already_processed(state, username) /\ ~reached
         found == /\ query = "ok"
                  /\ account.index < Len(followList)
                  /\ followList[account.index + 1] = username
                  /\ button = "found"
     IN /\ attempted' = Append(attempted, username)
        /\ located' = (located /\ found)
        /\ responsive' = (responsive /\ query = "ok" /\ button = "found")
        /\ pos' = next_account(pos, batch_size(BATCH_SIZE, invalid_accounts), failed)
        /\ history' = [history EXCEPT ![username].taken = TRUE]
        /\ IF reached
           THEN /\ clicks' = IF DRY_RUN THEN clicks
                             ELSE Append(clicks,
                                         [item |-> followList[account.index + 1],
                                          username |-> username])
                /\ state' = track_unfollow(state, username, DRY_RUN, now)
                /\ file' = save_state(file, state', disk)
           ELSE UNCHANGED <<clicks, state, file>>
  /\ UNCHANGED <<backup, csv, now, runs, pc, DRY_RUN, BATCH_SIZE, disk, probe,
                 followList, usernames, invalid_accounts, lastCheck, faithful, waits>>

\* The end of unfollow_batch (lines 1062-1071) and of run().
BatchFinish ==
  /\ pc = "batch"
  /\ pos = batch_size(BATCH_SIZE, invalid_accounts)
  /\ state' = update_last_run(state, now)
  /\ file' = save_state(file, state', disk)
  /\ pc' = "done"
  /\ UNCHANGED <<backup, csv, now, runs, DRY_RUN, BATCH_SIZE, disk, probe, followList,
                 usernames, invalid_accounts, pos, lastCheck, attempted, clicks, located,
                 responsive, faithful, waits, history>>

\* Ctrl+C or a kill while the checking loop runs (lines 928-959, caught at
\* lines 1118-1121): the process ends during a profile check or the delay
\* after it or, torn, inside the write of save_state at line 952.
Interrupt(torn) ==
  /\ pc = "classify"
  /\ pos < Len(usernames)
  /\ IF torn
     THEN /\ disk
          /\ file' = torn_write(file, mark_processed(state, usernames[pos + 1].username))
     ELSE file' = file
  /\ pc' = "interrupted"
  /\ UNCHANGED <<backup, csv, now, runs, DRY_RUN, BATCH_SIZE, disk, probe, state,
                 followList, usernames, invalid_accounts, pos, lastCheck, attempted,
                 clicks, located, responsive, faithful, waits, history>>

Next ==
  \/ \E dt \in Ticks, dry \in BOOLEAN, limit \in 1..MaxBatch, writable \in BOOLEAN :
        Run(dt, dry, limit, writable)
  \/ \E list \in SeqsUpTo(Items, MaxList) : Enumerate(list)
  \/ \E o \in Profiles : Classify(o)
  \/ \E list \in SeqsUpTo(Items, MaxList) : FinishScan(list)
  \/ \E query \in {"ok", "raise"}, button \in {"found", "missing", "timeout"} :
        BatchItem(query, button)
  \/ BatchFinish
  \/ \E torn \in BOOLEAN : Interrupt(torn)

Spec == Init /\ [][Next]_vars

(* --------------- check_if_account_invalid called on its own ------------ *)

\* Usernames given to the classifier: the three of the list, and strings
\* around the 'user' prefix.
CheckNames ==
  { LStripAt(u) : u \in Names } \cup
  { <<"u", "s", "e">>, <<"u", "s", "e", "r">>, <<"x", "u", "s", "e", "r", "1">>,
    <<"U", "S", "E", "R", "7">> }

InitCheck ==
  /\ file = NoFile
  /\ backup = NoFile
  /\ csv = NoCsv
  /\ now = 0
  /\ runs = 0
  /\ pc = "check"
  /\ DRY_RUN = TRUE
  /\ BATCH_SIZE = 1
  /\ disk = TRUE
  /\ probe \in [username : CheckNames, seen : Observations]
  /\ state = EmptyLedger
  /\ followList = <<>>
  /\ usernames = <<>>
  /\ invalid_accounts = <<>>
  /\ pos = 0
  /\ lastCheck = NoCheck
  /\ attempted = <<>>
  /\ clicks = <<>>
  /\ located = TRUE
  /\ responsive = TRUE
  /\ faithful = TRUE
  /\ waits = <<>>
  /\ history = [u \in Names |-> NoHistory]

\* One call check_if_account_invalid(probe.username) on a profile that
\* shows probe.seen.
CheckOne ==
  /\ pc = "check"
  /\ LET r == check_if_account_invalid(probe.username, probe.seen)
     IN lastCheck' = [username |-> probe.username,
                      is_invalid |-> r.is_invalid, reason |-> r.reason,
                      raised |-> r.raised, touched |-> r.trace # <<>>,
                         retries |-> Retries(r.trace), open |-> fail_open(r)]
  /\ pc' = "checked"
  /\ UNCHANGED <<file, backup, csv, now, runs, DRY_RUN, BATCH_SIZE, disk, probe,
                 state, followList, usernames, invalid_accounts, pos, attempted,
                 clicks, located, responsive, faithful, waits, history>>

NextCheck == CheckOne

SpecCheck == InitCheck /\ [][NextCheck]_vars

(* ------------------------ should_run called on its own ----------------- *)

\* Values of last_run, and seconds elapsed since, that the gate is asked about.
GateLastRuns == {NoTime} \cup 0..9
GateElapsed ==
  {0, 1, 7200, UNFOLLOW_DELAY - 1, UNFOLLOW_DELAY, UNFOLLOW_DELAY + 1, 2 * UNFOLLOW_DELAY}

InitGate ==
  /\ file = NoFile
  /\ backup = NoFile
  /\ csv = NoCsv
  /\ \E lr \in GateLastRuns, dt \in GateElapsed :
       /\ state = [EmptyLedger EXCEPT !.last_run = lr]
       /\ now = (IF lr = NoTime THEN 0 ELSE lr) + dt
  /\ runs = 0
  /\ pc = "gate"
  /\ DRY_RUN = TRUE
  /\ BATCH_SIZE = 1
  /\ disk = TRUE
  /\ probe = NoProbe
  /\ followList = <<>>
  /\ usernames = <<>>
  /\ invalid_accounts = <<>>
  /\ pos = 0
  /\ lastCheck = NoCheck
  /\ attempted = <<>>
  /\ clicks = <<>>
  /\ located = TRUE
  /\ responsive = TRUE
  /\ faithful = TRUE
  /\ waits = <<>>
  /\ history = [u \in Names |-> NoHistory]

\* One call self.should_run() at the instant now (lines 1104-1105).
Gate ==
  /\ pc = "gate"
  /\ pc' = IF should_run(state, now) THEN "scan" ELSE "gated"
  /\ UNCHANGED <<file, backup, csv, now, runs, DRY_RUN, BATCH_SIZE, disk, probe,
                 state, followList, usernames, invalid_accounts, pos, lastCheck,
                 attempted, clicks, located, responsive, faithful, waits, history>>

NextGate == Gate

SpecGate == InitGate /\ [][NextGate]_vars

(* ------------------------ load_state called on its own ---------------- *)

\* Ledgers that a state.json met by load_state was written from.
LoadLedgers ==
  { EmptyLedger,
    [last_run |-> 5, processed_accounts |-> <<Plain>>, unfollowed_accounts |-> <<>>],
    [last_run |-> NoTime, processed_accounts |-> <<Plain, UserDigits>>,
     unfollowed_accounts |-> <<[username |-> Plain, timestamp |-> 5]>>] }

\* The state.json files met by load_state: none, a JSON object with any of
\* the keys, a write of a ledger that was cut short, JSON that is not an
\* object, and a file that cannot be opened.
LoadFiles ==
  {NoFile} \cup
  { f \in [exists : {TRUE}, form : {"dict"}, keys : SUBSET LedgerKeys,
            ledger : LoadLedgers] : load_state(f) = f.ledger } \cup
  { torn_write(NoFile, l) : l \in LoadLedgers } \cup
  { [exists |-> TRUE, form |-> f, keys |-> {}, ledger |-> EmptyLedger] :
      f \in {"notdict", "unreadable"} }

\* The state.json.backup files met by load_state: none, or what an earlier
\* load_state moved there.
LoadBackups == {NoFile} \cup { f \in LoadFiles : corrupted(f) }

InitLoad ==
  /\ file \in LoadFiles
  /\ backup \in LoadBackups
  /\ csv = NoCsv
  /\ now = 0
  /\ runs = 0
  /\ pc = "load"
  /\ DRY_RUN = TRUE
  /\ BATCH_SIZE = 1
  /\ disk \in BOOLEAN
  /\ probe = [file |-> file, backup |-> backup]
  /\ state = EmptyLedger
  /\ followList = <<>>
  /\ usernames = <<>>
  /\ invalid_accounts = <<>>
  /\ pos = 0
  /\ lastCheck = NoCheck
  /\ attempted = <<>>
  /\ clicks = <<>>
  /\ located = TRUE
  /\ responsive = TRUE
  /\ faithful = TRUE
  /\ waits = <<>>
  /\ history = [u \in Names |-> NoHistory]

\* One call self.load_state() (line 130) on the files probe.file and
\* probe.backup; an exception that leaves load_state ends the process.
Load ==
  /\ pc = "load"
  /\ IF load_raises(file)
     THEN /\ pc' = "raised"
          /\ UNCHANGED <<state, file, backup>>
     ELSE /\ pc' = "loaded"
          /\ state' = load_state(file)
          /\ file' = rename_backup(file, backup, disk)[1]
          /\ backup' = rename_backup(file, backup, disk)[2]
  /\ UNCHANGED <<csv, now, runs, DRY_RUN, BATCH_SIZE, disk, probe, followList,
                 usernames, invalid_accounts, pos, lastCheck, attempted, clicks,
                 located, responsive, faithful, waits, history>>

NextLoad == Load

SpecLoad == InitLoad /\ [][NextLoad]_vars

(* ---------------------- export_to_csv called on its own --------------- *)

\* Calls made in a row.
MaxCalls == 3

\* The invalid_accounts lists handed to export_to_csv.
ExportLists ==
  SeqsUpTo({ [username |-> Plain, index |-> 0, reason |-> "Account not found"],
             [username |-> UserDigits, index |-> 1,
              reason |-> "Default username format (userXXXX)"] }, 2)

\* probe holds the arguments of the calls made so far, in call order.
InitExport ==
  /\ file = NoFile
  /\ backup = NoFile
  /\ csv = NoCsv
  /\ now = 0
  /\ runs = 0
  /\ pc = "export"
  /\ DRY_RUN = TRUE
  /\ BATCH_SIZE = 1
  /\ disk = TRUE
  /\ probe = <<>>
  /\ state = EmptyLedger
  /\ followList = <<>>
  /\ usernames = <<>>
  /\ invalid_accounts = <<>>
  /\ pos = 0
  /\ lastCheck = NoCheck
  /\ attempted = <<>>
  /\ clicks = <<>>
  /\ located = TRUE
  /\ responsive = TRUE
  /\ faithful = TRUE
  /\ waits = <<>>
  /\ history = [u \in Names |-> NoHistory]

\* One call self.export_to_csv(accounts), a second after the one before.
Export(accounts, ok) ==
  /\ pc = "export"
  /\ Len(probe) < MaxCalls
  /\ now' = now + 1
  /\ disk' = ok
  /\ csv' = export_to_csv(csv, accounts, now', ok)
  /\ probe' = Append(probe, [accounts |-> accounts, at |-> now', ok |-> ok])
  /\ UNCHANGED <<file, backup, runs, pc, DRY_RUN, BATCH_SIZE, state, followList,
                 usernames, invalid_accounts, pos, lastCheck, attempted, clicks,
                 located, responsive, faithful, waits, history>>

NextExport == \E accounts \in ExportLists, ok \in BOOLEAN : Export(accounts, ok)

SpecExport == InitExport /\ [][NextExport]_vars

(* -------------------- the delays of the checking loop ------------------ *)

\* The largest PROFILE_CHECK_DELAY asked for, and the longest list checked.
MaxBase == 32
MaxChecked == 3

\* What the environment holds for PROFILE_CHECK_DELAY: an integer, or
\* nothing that int() accepts.
DelayEnvs ==
  {[valid |-> FALSE, value |-> 0]} \cup
  {[valid |-> TRUE, value |-> n] : n \in (-2)..MaxBase}

\* probe holds the setting and the number of usernames to check.
InitDelay ==
  /\ file = NoFile
  /\ backup = NoFile
  /\ csv = NoCsv
  /\ now = 0
  /\ runs = 0
  /\ pc = "delay"
  /\ DRY_RUN = TRUE
  /\ BATCH_SIZE = 1
  /\ disk = TRUE
  /\ probe \in [env : DelayEnvs, total : 1..MaxChecked]
  /\ state = EmptyLedger
  /\ followList = <<>>
  /\ usernames = <<>>
  /\ invalid_accounts = <<>>
  /\ pos = 0
  /\ lastCheck = NoCheck
  /\ attempted = <<>>
  /\ clicks = <<>>
  /\ located = TRUE
  /\ responsive = TRUE
  /\ faithful = TRUE
  /\ waits = <<>>
  /\ history = [u \in Names |-> NoHistory]

\* One iteration of the checking loop in which the check went through
\* (lines 928-959): the account is counted and the delay, if due, slept.
CheckAndWait ==
  /\ pc = "delay"
  /\ pos < probe.total
  /\ pos' = pos + 1
  /\ IF delay_due(pos, probe.total)
     THEN \E d \in randomized_delay(profile_check_delay(probe.env)) :
            waits' = Append(waits, d)
     ELSE waits' = waits
  /\ UNCHANGED <<file, backup, csv, now, runs, pc, DRY_RUN, BATCH_SIZE, disk, probe,
                 state, followList, usernames, invalid_accounts, lastCheck, attempted,
                 clicks, located, responsive, faithful, history>>

NextDelay == CheckAndWait

SpecDelay == InitDelay /\ [][NextDelay]_vars

(* ------------------------------- claims -------------------------------- *)

\* The unfollowed_accounts entries appended by the running process: the
\* clock moves at every invocation, so they are the ones stamped now.
NewEvents ==
  LET ThisRun(e) == e.timestamp = now
  IN SelectSeq(state.unfollowed_accounts, ThisRun)

\* The usernames of a list of unfollowed_accounts entries.
EventNames(events) == [k \in 1..Len(events) |-> events[k].username]

\* No element occurs twice in the sequence.
NoDuplicates(q) == \A j, k \in 1..Len(q) : q[j] = q[k] => j = k

\* The candidates handed to unfollow_batch, by username.
Candidates == [k \in 1..Len(invalid_accounts) |-> invalid_accounts[k].username]

\* C1: a finished non-dry-run run that classified n accounts Invalid, and
\* in which every account taken up had its list item and button found,
\* has clicked unfollow for, and appended an unfollowed_accounts entry for,
\* exactly min(BATCH_SIZE, n) of them, with all n in processed_accounts.
C1_UnfollowsBatch ==
  (pc = "done" /\ ~DRY_RUN /\ invalid_accounts # <<>> /\ located) =>
    /\ Len(clicks) = Min(BATCH_SIZE, Len(invalid_accounts))
    /\ Len(NewEvents) = Min(BATCH_SIZE, Len(invalid_accounts))
    /\ \A k \in 1..Len(Candidates) : InList(Candidates[k], state.processed_accounts)

\* C2: the loop of unfollow_batch takes up the first
\* min(BATCH_SIZE, len(candidates)) candidates, in the order in which they
\* were enumerated and classified, and never more than BATCH_SIZE accounts
\* are taken up or clicked in one run.
C2_BatchBound ==
  /\ Len(attempted) <= BATCH_SIZE
  /\ Len(clicks) <= Len(attempted)
  /\ Len(attempted) <= Len(Candidates)
  /\ attempted = SubSeq(Candidates, 1, Len(attempted))
  /\ \A j, k \in 1..Len(invalid_accounts) :
       j < k => invalid_accounts[j].index < invalid_accounts[k].index
  /\ (pc = "done" /\ invalid_accounts # <<>>) =>
       Len(attempted) = Min(BATCH_SIZE, Len(Candidates))

\* C2 witness: a non-dry-run batch ended that was handed more candidates
\* than BATCH_SIZE and took up BATCH_SIZE of them.
C2_Witness ==
  /\ pc = "done"
  /\ Len(Candidates) > BATCH_SIZE
  /\ Len(attempted) = BATCH_SIZE
  /\ ~DRY_RUN

\* C3: no username occurs twice in unfollowed_accounts, in memory or in
\* state.json.
C3_UnfollowedOnce ==
  /\ NoDuplicates(EventNames(state.unfollowed_accounts))
  /\ NoDuplicates(EventNames(file.ledger.unfollowed_accounts))

\* C3 witness: a second non-dry-run batch has taken up a candidate, and the
\* list of the run showed an account twice.
C3_Witness ==
  /\ runs = 2
  /\ pc = "done"
  /\ ~DRY_RUN
  /\ Len(attempted) = 2
  /\ attempted[1] = attempted[2]
  /\ located

\* C4: while every run loads the ledger the run before it left and finds
\* each username once in the list, a username in processed_accounts is not
\* among the usernames to check, and no username is checked more than once.
C4_CheckedOnce ==
  faithful =>
    /\ \A u \in Names : history[u].checks <= 1
    /\ pc = "classify" =>
         \A k \in (pos + 1)..Len(usernames) :
           ~InList(usernames[k].username, state.processed_accounts)

\* C4 witness: the second run found in the list a username that the first
\* run had checked, and left it out of the usernames to check.
C4_Witness ==
  /\ faithful
  /\ runs = 2
  /\ pc = "classify"
  /\ usernames # <<>>
  /\ \E k \in 1..Len(followList) :
       /\ followList[k] \in Names
       /\ history[followList[k]].checks = 1
       /\ \A j \in 1..Len(usernames) : usernames[j].username # followList[k]

\* C5: while every run loads the ledger the run before it left and finds
\* each username once in the list, an account found Invalid that no batch
\* has taken up is, in a run whose list shows it, among the candidates
\* handed to unfollow_batch once the checking loop has ended, and it has
\* been checked once only.
C5_StillEligible ==
  (faithful /\ pc = "classify" /\ pos = Len(usernames)) =>
    \A u \in Names :
      (history[u].invalid /\ ~history[u].taken /\ InList(u, followList)) =>
        /\ InList(u, Candidates)
        /\ history[u].checks = 1

\* C6: under DRY_RUN no unfollow button is clicked and no
\* unfollowed_accounts entry is appended, and at the end of the run every
\* candidate of the batch is in processed_accounts.
C6_DryRun ==
  DRY_RUN =>
    /\ clicks = <<>>
    /\ NewEvents = <<>>
    /\ pc = "done" =>
         \A k \in 1..Min(BATCH_SIZE, Len(Candidates)) :
           InList(Candidates[k], state.processed_accounts)

\* C6 witness: a dry run ended whose batch held BATCH_SIZE = 2 candidates.
C6_Witness ==
  /\ DRY_RUN
  /\ pc = "done"
  /\ BATCH_SIZE = 2
  /\ Len(attempted) = 2
  /\ located

\* C7: should_run answers true when last_run is absent, and otherwise
\* exactly when now >= last_run + UNFOLLOW_DELAY.
C7_ShouldRun ==
  /\ pc = "scan" => (state.last_run = NoTime \/ now >= state.last_run + UNFOLLOW_DELAY)
  /\ pc = "gated" => (state.last_run # NoTime /\ now < state.last_run + UNFOLLOW_DELAY)
  /\ (pc \in {"scan", "gated"} /\ state.last_run # NoTime) =>
       /\ now = state.last_run + UNFOLLOW_DELAY - 1 => pc = "gated"
       /\ now = state.last_run + UNFOLLOW_DELAY => pc = "scan"
       /\ (UNFOLLOW_DELAY = 10800 /\ now = state.last_run + 7200) => pc = "gated"

\* C7 witness: the gate let a run through exactly UNFOLLOW_DELAY seconds
\* after last_run.
C7_Witness ==
  /\ pc = "scan"
  /\ state.last_run # NoTime
  /\ now = state.last_run + UNFOLLOW_DELAY

\* C8: a run that passed the gate, checked the accounts of the list and
\* ended has set last_run to the current instant, also when none of them
\* was found Invalid.
C8_LastRunSet == (pc = "done" /\ usernames # <<>>) => state.last_run = now

\* Digits after the 'user' prefix: the default-username pattern.
DefaultPattern(username) ==
  /\ Len(username) > Len(USER_PREFIX)
  /\ SubSeq(username, 1, Len(USER_PREFIX)) = USER_PREFIX
  /\ \A k \in (Len(USER_PREFIX) + 1)..Len(username) : username[k] \in Digits

\* C9: a username of the default pattern is found Invalid, with the
\* default-username reason, without any call to the browser.
C9_DefaultNoFetch ==
  (lastCheck # NoCheck /\ DefaultPattern(lastCheck.username)) =>
    /\ lastCheck.is_invalid
    /\ lastCheck.reason = "Default username format (userXXXX)"
    /\ ~lastCheck.touched

\* C9 witness: user48213 was checked with a profile that would have shown
\* videos.
C9_Witness ==
  /\ pc = "checked"
  /\ probe.username = UserDigits
  /\ probe.seen.goto = "ok"
  /\ probe.seen.videos[1] = "some"
  /\ lastCheck.is_invalid

\* C10: a check during which a call to the browser raised ends Valid with
\* no reason, and its username gets no unfollowed_accounts entry in the run.
C10_FailOpen ==
  (lastCheck # NoCheck /\ lastCheck.raised) =>
    /\ ~lastCheck.is_invalid
    /\ lastCheck.reason = None
    /\ \A k \in 1..Len(NewEvents) :
         LStripAt(NewEvents[k].username) # lastCheck.username

\* C11: a fetched profile that shows the Refresh button gets exactly one
\* Refresh click; when the button is still there after it the account is
\* found Valid with no reason, whatever the page text and the videos are.
C11_RefreshRetry ==
  (pc = "checked" /\ lastCheck.touched /\ probe.seen.goto = "ok"
     /\ probe.seen.refresh1 = "present") =>
    /\ lastCheck.retries = 1
    /\ probe.seen.refresh2 = "present" =>
         ~lastCheck.is_invalid /\ lastCheck.reason = None

\* C11 witness: the button stood through the retry on a page that says the
\* account is not found and shows no video, and the account was found Valid.
C11_Witness ==
  /\ pc = "checked"
  /\ probe.seen.refresh1 = "present"
  /\ probe.seen.refresh2 = "present"
  /\ "notfound" \in probe.seen.text
  /\ probe.seen.videos = NoVideos
  /\ lastCheck.retries = 1
  /\ ~lastCheck.is_invalid

\* The page of the latest check loaded: no call to the browser raised and
\* no Refresh button stood after the retry.
Loaded ==
  /\ pc = "checked"
  /\ lastCheck.touched
  /\ ~lastCheck.raised
  /\ probe.seen.refresh2 = "absent"

\* C20: on a loaded profile of a username without the 'user' prefix the
\* tests are made in this order: a not-found text gives Invalid with
\* "Account not found"; else "banned" with "account" in the text gives
\* Invalid with "Banned account"; else no video under any selector gives
\* Invalid with a no-videos reason; else the account is Valid, no reason.
C20_Precedence ==
  Loaded =>
    LET text == probe.seen.text
        banned == "banned" \in text /\ "account" \in text
        posts == \E k \in 1..3 : probe.seen.videos[k] = "some"
    IN IF "notfound" \in text
       THEN lastCheck.is_invalid /\ lastCheck.reason = "Account not found"
       ELSE IF banned
       THEN lastCheck.is_invalid /\ lastCheck.reason = "Banned account"
       ELSE IF ~posts
       THEN /\ lastCheck.is_invalid
            /\ lastCheck.reason \in {"No videos (likely deleted/banned)",
                                     "No videos found"}
       ELSE ~lastCheck.is_invalid /\ lastCheck.reason = None

\* C20 witness: a loaded page with the not-found text, the banned text and
\* videos was found Invalid as not found.
C20_Witness ==
  /\ Loaded
  /\ probe.seen.text = {"notfound", "account", "banned"}
  /\ probe.seen.videos[1] = "some"
  /\ lastCheck.reason = "Account not found"

\* C12: load_state raises nothing; without a state.json it returns the
\* default ledger and leaves the files alone; a state.json that is
\* malformed or not an object gives the default ledger and, in a directory
\* that can be written, is moved to state.json.backup, and a backup that
\* was there before is still on disk afterwards.
C12_LoadState ==
  /\ pc # "raised"
  /\ pc = "loaded" =>
       /\ ~probe.file.exists =>
            state = EmptyLedger /\ file = probe.file /\ backup = probe.backup
       /\ (corrupted(probe.file) /\ disk) =>
            /\ state = EmptyLedger
            /\ ~file.exists
            /\ backup = probe.file
            /\ probe.backup.exists => probe.backup \in {file, backup}

\* C13: when a process that could write its directory, and met every
\* username once, was interrupted, the ledger the next run loads holds
\* every username whose check had been completed and every
\* unfollowed_accounts entry made: only the account in hand can be missing.
C13_CrashKeeps ==
  (pc = "interrupted" /\ disk /\ faithful) =>
    LET next == load_state(file)
    IN /\ \A k \in 1..Len(state.processed_accounts) :
            InList(state.processed_accounts[k], next.processed_accounts)
       /\ \A k \in 1..Len(state.unfollowed_accounts) :
            InList(state.unfollowed_accounts[k], next.unfollowed_accounts)

\* The calls among calls that wrote the sink.
Written(calls) == LET Ok(c) == c.ok IN SelectSeq(calls, Ok)

\* The rows that the calls hand over, call after call.
RECURSIVE RowsOf(_)
RowsOf(calls) ==
  IF calls = <<>> THEN <<>>
  ELSE RowsOf(SubSeq(calls, 1, Len(calls) - 1)) \o
       [k \in 1..Len(calls[Len(calls)].accounts) |->
          [header |-> FALSE, timestamp |-> calls[Len(calls)].at,
           username |-> calls[Len(calls)].accounts[k].username,
           reason |-> calls[Len(calls)].accounts[k].reason]]

C15_EveryVerdictExported ==
  (pc \in {"done", "interrupted"} /\ disk) =>
    \A k \in 1..Len(invalid_accounts) :
      \E j \in 1..Len(csv.rows) :
        /\ ~csv.rows[j].header
        /\ csv.rows[j].username = invalid_accounts[k].username
        /\ csv.rows[j].reason = invalid_accounts[k].reason
        /\ csv.rows[j].timestamp = now

\* C16: a failure met while one account is handled does not end the run.
\* Once the checking loop is left by itself every username of the run has
\* been checked and recorded, also after checks that raised and ledger
\* writes that failed; a finished batch has taken up every account up to
\* its size; and the run's unfollowed_accounts entries are only of accounts
\* whose button was clicked.
C16_FailuresSkip ==
  /\ (pc \in {"batch", "done"} /\ usernames # <<>>) =>
       \A k \in 1..Len(usernames) :
         /\ history[usernames[k].username].checks >= 1
         /\ InList(usernames[k].username, state.processed_accounts)
  /\ (pc = "done" /\ invalid_accounts # <<>>) =>
       Len(attempted) = batch_size(BATCH_SIZE, invalid_accounts)
  /\ \A k \in 1..Len(NewEvents) :
       \E j \in 1..Len(clicks) : clicks[j].username = NewEvents[k].username

\* C16 witness: a run that could not write its ledger, whose last check
\* raised, and whose batch met a modal that did not answer, went through
\* both of its accounts and ended.
C16_Witness ==
  /\ pc = "done"
  /\ ~disk
  /\ Len(usernames) = 2
  /\ Len(invalid_accounts) = 1
  /\ lastCheck.raised
  /\ Len(attempted) = 1
  /\ ~responsive
  /\ Len(state.processed_accounts) = 2

\* C17: the last_run that a next run would load changes only in the step
\* that ends unfollow_batch, and then to the current instant, which is not
\* earlier than the value before.
C17_LastRunForward ==
  [][load_state(file').last_run # load_state(file).last_run =>
       /\ pc = "batch" /\ pc' = "done"
       /\ load_state(file').last_run = now
       /\ load_state(file').last_run >= load_state(file).last_run]_vars

\* C18: no step takes a username out of processed_accounts, neither a step
\* of a run nor the step from the end of a run that could write its
\* directory to the ledger that the next run loads.
C18_ProcessedGrows ==
  [][disk =>
       \A k \in 1..Len(state.processed_accounts) :
         InList(state.processed_accounts[k], state'.processed_accounts)]_vars

\* The list in the modal of unfollow_batch is not the one that was checked:
\* an account of the run is no longer at its index.
Moved ==
  \E k \in 1..Len(usernames) :
    ~(/\ usernames[k].index < Len(followList)
      /\ followList[usernames[k].index + 1] = usernames[k].username)

\* C19: when the list has moved between the checks and a batch that is not
\* a dry run, and the modal answers and shows its buttons, every account
\* taken up by the batch that is still in the list has the button of its
\* own item clicked, and every click is on the item of the account it was
\* made for, an account found Invalid in this run.
C19_Reresolve ==
  (pc = "done" /\ ~DRY_RUN /\ attempted # <<>> /\ responsive /\ faithful /\ Moved) =>
    /\ \A k \in 1..Len(attempted) :
         InList(attempted[k], followList) =>
           \E j \in 1..Len(clicks) : clicks[j].item = attempted[k]
    /\ \A j \in 1..Len(clicks) :
         /\ clicks[j].item = clicks[j].username
         /\ \E k \in 1..Len(invalid_accounts) :
              invalid_accounts[k].username = clicks[j].item

\* C21: only a username made of the 'user' prefix, in any case, and digits
\* after it is found Invalid with the default-username reason; any other
\* username is looked up in the browser.
C21_DigitsOnly ==
  pc = "checked" =>
    IF DefaultPattern(Lower(lastCheck.username))
    THEN lastCheck.reason = "Default username format (userXXXX)"
    ELSE /\ lastCheck.reason # "Default username format (userXXXX)"
         /\ lastCheck.touched

\* C22: a run that should_run turns away touches nothing: the step into it
\* is taken only when should_run is false, leaves state.json, its backup and
\* the sink as they were, holds the ledger as it was loaded, and makes no
\* call to the browser; the only step after it is the start of a new run.
C22_GateFrame ==
  [][/\ pc' = "gated" =>
          /\ ~should_run(load_state(file), now')
          /\ file' = file /\ backup' = backup /\ csv' = csv
          /\ state' = load_state(file)
          /\ followList' = <<>> /\ usernames' = <<>> /\ attempted' = <<>>
          /\ clicks' = <<>> /\ lastCheck' = NoCheck
          /\ history' = history
     /\ pc = "gated" => runs' = runs + 1]_vars

\* C22 witness: a run was turned away with a ledger that holds a last_run
\* and checked accounts, and with rows in the sink.
C22_Witness ==
  /\ pc = "gated"
  /\ state.last_run # NoTime
  /\ state.processed_accounts # <<>>
  /\ file.exists
  /\ csv.exists

\* The largest integer that is at most a quarter of base.
QuarterFloor(base) == CHOOSE n \in 0..base : 4 * n <= base /\ base < 4 * (n + 1)

\* C23: the setting in use is never negative; while k accounts are checked
\* a delay has been slept after each account checked so far but not after
\* the k-th; and each delay d is a natural number with
\* base - floor(base/4) <= d <= base + floor(base/4).
C23_DelayJitter ==
  pc = "delay" =>
    LET base == profile_check_delay(probe.env)
    IN /\ base >= 0
       /\ Len(waits) = Min(pos, probe.total - 1)
       /\ \A k \in 1..Len(waits) :
            /\ waits[k] \in Nat
            /\ base - QuarterFloor(base) <= waits[k]
            /\ waits[k] <= base + QuarterFloor(base)

\* C23 witness: three accounts were checked with a setting of 7 seconds;
\* the two delays slept were the shortest and the longest one, 6 and 8.
C23_Witness ==
  /\ pc = "delay"
  /\ probe.env = [valid |-> TRUE, value |-> 7]
  /\ pos = 3
  /\ waits = <<6, 8>>

\* C24: a username whose check ended fail-open is in processed_accounts
\* right after the check, and in state.json when the directory can be
\* written; and as long as every run loads the ledger the run before left,
\* a username that was ever checked fail-open has been checked once in all.
C24_FailOpenRecorded ==
  /\ (pc = "classify" /\ pos >= 1 /\ lastCheck.open) =>
       /\ InList(usernames[pos].username, state.processed_accounts)
       /\ disk => InList(usernames[pos].username,
                         load_state(file).processed_accounts)
  /\ \A u \in Names : (faithful /\ history[u].open) => history[u].checks = 1

\* C24 witness: the second run meets in its list a username that the first
\* run checked fail-open, and does not take it among the usernames to check.
C24_Witness ==
  /\ runs = 2
  /\ pc = "classify"
  /\ faithful
  /\ \E u \in Names :
       /\ history[u].open
       /\ history[u].checks = 1
       /\ InList(u, followList)
       /\ \A k \in 1..Len(usernames) : usernames[k].username # u

\* C25: as long as every run loads the ledger the run before left, a
\* username found Invalid in a dry run is in no later run that is not a
\* dry run among the usernames to check or the accounts of the batch, has
\* no button clicked, and never gets an unfollowed_accounts entry.
C25_DryThenLive ==
  \A u \in Names :
    (faithful /\ history[u].dry) =>
      /\ \A k \in 1..Len(state.unfollowed_accounts) :
           state.unfollowed_accounts[k].username # u
      /\ \A k \in 1..Len(clicks) : clicks[k].username # u /\ clicks[k].item # u
      /\ (~DRY_RUN /\ pc \in {"classify", "batch", "done", "interrupted"}) =>
           /\ \A k \in 1..Len(usernames) : usernames[k].username # u
           /\ \A k \in 1..Len(invalid_accounts) : invalid_accounts[k].username # u

\* C25 witness: the first run, a dry run, found a username Invalid; the
\* second run is not a dry run, meets the username in its list, finds
\* another account Invalid and ends its batch without a click.
C25_Witness ==
  /\ runs = 2
  /\ ~DRY_RUN
  /\ pc = "done"
  /\ faithful
  /\ attempted # <<>>
  /\ \E u \in Names :
       /\ history[u].dry
       /\ InList(u, followList)
       /\ ~InList(u, attempted)

=============================================================================
